---- MODULE Spec2Model ----
(***************************************************************************)
(* Thumbnail generation-and-cache pipeline of YukkiMusic                   *)
(* (internal/utils/gen_thumb.go): ProcessThumbnail, downloadImage,         *)
(* loadFont, addOverlay, wrapText, saveImage, generateOutputPath,          *)
(* CleanupOldThumbnails, and the TTL cache behind thumbnailCache.          *)
(*                                                                         *)
(* Strings are sequences of one-character strings, so that Sprintf,        *)
(* strings.Fields and strings.Join are computed and not assumed.           *)
(* Time is counted in minutes; time.Now() reads the variable now.          *)
(***************************************************************************)
EXTENDS Integers, Sequences, FiniteSets, TLC

VARIABLES
    now,        \* the wall clock read by time.Now(), in minutes
    cache,      \* thumbnailCache: key -> [value, expiresAt] and its history
    files,      \* the artifact directory: path -> [mtime]
    dirExists,  \* whether <tmp>/yukki_thumbnails exists
    config,     \* config.ThumbnailOverlay, config.ThumbnailFont
    pc,         \* position of each caller inside ProcessThumbnail
    loc,        \* local variables of each caller's running call
    obs,        \* what each running call has done so far (history)
    ncalls,     \* number of ProcessThumbnail calls started
    wpc,        \* position of the harness that calls one function on its own
    win,        \* its argument: wrapText's [text, maxWidth, adv], seconds, or
                \* the bounds of a source image
    wout,       \* its result
    jan         \* one run of CleanupOldThumbnails taken step by step: its
                \* position, locals and history

vars == <<now, cache, files, dirExists, config, pc, loc, obs, ncalls,
          wpc, win, wout, jan>>

wrapVars == <<wpc, win, wout>>

----------------------------------------------------------------------------
(* Bounds of the model *)

\* total number of ProcessThumbnail calls in one behaviour
MaxCalls == 2

\* the clock stops advancing at this many minutes
MaxTime == 80

\* minutes added by one tick of the clock
TickStep == 20

\* longest title handed to wrapText, in characters
MaxTextLen == 9

\* largest width budget handed to wrapText
MaxWidth == 5

\* largest per-character advance of a font face
MaxAdv == 2

----------------------------------------------------------------------------
(* Program constants *)

\* CacheTTL, were the cache built with 90 minutes
LongTTL == 3 * 30

\* NewCache[string, string](30 * time.Minute)
CacheTTL == 30

\* now.Sub(info.ModTime()) > time.Hour
Retention == 60

\* DefaultThumbnailConfig: Width, Height, Quality
CfgWidth == 1280

CfgHeight == 720

CfgQuality == 85

\* saveImage(img, outputPath, 95) on the overlay-disabled path
RawQuality == 95

\* for len(lines) > 2 { lines = lines[:2] ... }
MaxLines == 2

----------------------------------------------------------------------------
(* Strings *)

Ellipsis == <<".", ".", ".">>

Newline == <<"\n">>

Space == <<" ">>

\* unicode.IsSpace, on the characters the model uses
IsSpace(c) == c \in {" ", "\n", "\t"}

RECURSIVE FieldsFrom(_, _, _, _)
FieldsFrom(text, i, cur, acc) ==
    IF i > Len(text)
    THEN IF cur = <<>> THEN acc ELSE Append(acc, cur)
    ELSE IF IsSpace(text[i])
         THEN FieldsFrom(text, i + 1, <<>>,
                         IF cur = <<>> THEN acc ELSE Append(acc, cur))
         ELSE FieldsFrom(text, i + 1, Append(cur, text[i]), acc)

\* strings.Fields: the maximal runs of non-space characters
Fields(text) == FieldsFrom(text, 1, <<>>, <<>>)

RECURSIVE Join(_, _)
\* strings.Join
Join(elems, sep) ==
    IF Len(elems) = 0 THEN <<>>
    ELSE IF Len(elems) = 1 THEN elems[1]
    ELSE elems[1] \o sep \o Join(Tail(elems), sep)

\* dc.MeasureString: the advance width of s in the loaded face (monospaced)
MeasureString(dc, s) == Len(s) * dc.adv

----------------------------------------------------------------------------
(* wrapText *)

RECURSIVE WrapLoop(_, _, _, _, _, _)
\* for _, word := range words { ... }: returns <<lines, currentLine>>
WrapLoop(dc, words, i, lines, currentLine, maxWidth) ==
    IF i > Len(words) THEN <<lines, currentLine>>
    ELSE LET word == words[i]
             testLine == IF currentLine # <<>>
                         THEN currentLine \o Space \o word
                         ELSE word
             w == MeasureString(dc, testLine)
         IN  IF w > maxWidth /\ currentLine # <<>>
             THEN WrapLoop(dc, words, i + 1, Append(lines, currentLine),
                           word, maxWidth)
             ELSE WrapLoop(dc, words, i + 1, lines, testLine, maxWidth)

RECURSIVE TruncateLast(_, _, _, _)
\* the for { ... } loop that shortens the last line; returns lines[1] of the code
TruncateLast(dc, lastLine, kept, maxWidth) ==
    IF MeasureString(dc, lastLine \o Ellipsis) <= maxWidth
    THEN lastLine \o Ellipsis
    ELSE LET words == Fields(lastLine)
         IN  IF Len(words) <= 1
             THEN kept
             ELSE TruncateLast(dc, Join(SubSeq(words, 1, Len(words) - 1), Space),
                               kept, maxWidth)

\* wrapLines, were the lines not cut to two
wrapLinesUncapped(dc, text, maxWidth) ==
    LET r == WrapLoop(dc, Fields(text), 1, <<>>, <<>>, maxWidth)
    IN  IF r[2] # <<>> THEN Append(r[1], r[2]) ELSE r[1]

\* the lines wrapText joins with "\n"
wrapLines(dc, text, maxWidth) ==
    LET words == Fields(text)
        r == WrapLoop(dc, words, 1, <<>>, <<>>, maxWidth)
        lines == IF r[2] # <<>> THEN Append(r[1], r[2]) ELSE r[1]
    IN  IF Len(lines) > MaxLines
        THEN <<lines[1], TruncateLast(dc, lines[2], lines[2], maxWidth)>>
        ELSE lines

wrapText(dc, text, maxWidth) ==
    IF Len(Fields(text)) = 0 THEN text
    ELSE Join(wrapLines(dc, text, maxWidth), Newline)

----------------------------------------------------------------------------
(* Requests and the cache key *)

\* the goroutines that call ProcessThumbnail
Procs == {"c1", "c2"}

Req(u, t, d) == [url |-> u, title |-> t, duration |-> d]

\* the (thumbnailURL, title, duration) triples callers pass
Requests ==
    { Req(<<"u">>, <<"a", ":", "b">>, <<"c">>),
      Req(<<"u">>, <<"a">>, <<"b", ":", "c">>),
      Req(<<"u">>, <<>>, <<>>),
      Req(<<>>, <<"a">>, <<"c">>) }

\* cacheKey := fmt.Sprintf("%s:%s:%s", thumbnailURL, title, duration)
cacheKey(r) == r.url \o <<":">> \o r.title \o <<":">> \o r.duration

----------------------------------------------------------------------------
(* thumbnailCache: the TTL cache *)

\* Get: found is false if the key is absent or past its expiry
CacheGet(c, key, t) ==
    IF key \in DOMAIN c /\ ~(t > c[key].expiresAt)
    THEN [value |-> c[key].value, ok |-> TRUE]
    ELSE [value |-> <<>>, ok |-> FALSE]

\* Set: inserts or overwrites, with expiry = now + TTL; setAt, by and req
\* are history: when, by which call and for which triple the entry was set
CacheSet(c, key, value, t, id, r) ==
    [k \in DOMAIN c \cup {key} |->
        IF k = key
        THEN [value |-> value, expiresAt |-> t + CacheTTL,
              setAt |-> t, by |-> id, req |-> r]
        ELSE c[k]]

----------------------------------------------------------------------------
(* Files *)

\* filepath.Join(os.TempDir(), "yukki_thumbnails", "thumb_<UnixNano>.jpg")
generateOutputPath(t) == <<"thumb", t>>

\* fileExists, were the error of os.Stat dropped
fileExistsAlways(path) == TRUE

\* os.Stat(path) succeeds on an artifact
fileExists(path) == path \in DOMAIN files

\* the directory with path removed
RemoveFile(fs, path) == [q \in DOMAIN fs \ {path} |-> fs[q]]

\* os.Create(path) followed by the encoder's writes
WriteFile(fs, path, content) ==
    [q \in DOMAIN fs \cup {path} |-> IF q = path THEN content ELSE fs[q]]

----------------------------------------------------------------------------
(* Fonts *)

CustomFontPath == "custom.ttf"

defaultFontPaths ==
    << "/usr/share/fonts/truetype/dejavu/DejaVuSans-Bold.ttf",
       "/usr/share/fonts/truetype/dejavu/DejaVuSans.ttf",
       "/usr/share/fonts/dejavu/DejaVuSans-Bold.ttf",
       "/usr/share/fonts/truetype/liberation/LiberationSans-Bold.ttf",
       "/System/Library/Fonts/Helvetica.ttc",
       "/usr/share/fonts/truetype/ubuntu/Ubuntu-Bold.ttf" >>

\* a font environment gives each font path one of: absent, bad (present
\* but unparsable), good
FontEnv(custom, defaults) ==
    [path \in {CustomFontPath} \cup {defaultFontPaths[i] : i \in 1 .. Len(defaultFontPaths)} |->
        IF path = CustomFontPath THEN custom
        ELSE defaults[CHOOSE i \in 1 .. Len(defaultFontPaths) : defaultFontPaths[i] = path]]

\* the font environments a loadFont call may meet
FontEnvs ==
    { FontEnv("good", <<"absent", "absent", "absent", "absent", "absent", "absent">>),
      FontEnv("bad", <<"good", "absent", "absent", "absent", "absent", "absent">>),
      FontEnv("absent", <<"absent", "absent", "absent", "absent", "absent", "good">>),
      FontEnv("absent", <<"bad", "good", "absent", "absent", "absent", "absent">>),
      FontEnv("absent", <<"absent", "absent", "absent", "absent", "absent", "absent">>),
      FontEnv("bad", <<"bad", "bad", "bad", "bad", "bad", "bad">>) }

\* dc.LoadFontFace(path, size) returns nil
LoadFontFace(env, path) == env[path] = "good"

RECURSIVE TryDefaults(_, _)
\* for _, fontPath := range defaultFontPaths: index of the first default
\* that exists and loads, 0 if none
TryDefaults(env, i) ==
    IF i > Len(defaultFontPaths) THEN 0
    ELSE IF env[defaultFontPaths[i]] # "absent" /\ LoadFontFace(env, defaultFontPaths[i])
         THEN i
         ELSE TryDefaults(env, i + 1)

\* loadFont: the custom font first, then the defaults; ok = (error is nil)
loadFont(env, customFont, fontSize) ==
    IF customFont # "" /\ env[customFont] # "absent" /\ LoadFontFace(env, customFont)
    THEN [ok |-> TRUE, path |-> customFont, size |-> fontSize]
    ELSE LET i == TryDefaults(env, 1)
         IN  IF i # 0
             THEN [ok |-> TRUE, path |-> defaultFontPaths[i], size |-> fontSize]
             ELSE [ok |-> FALSE, path |-> "", size |-> fontSize]

----------------------------------------------------------------------------
(* Images and addOverlay *)

NoImg == [w |-> 0, h |-> 0, src |-> <<>>, grad |-> FALSE, title |-> <<>>, dur |-> <<>>]

\* the bitmaps a download may decode to
SourceSizes == { <<640, 360>>, <<1920, 1080>> }

Bitmap(url, size) ==
    [w |-> size[1], h |-> size[2], src |-> url, grad |-> FALSE, title |-> <<>>, dur |-> <<>>]

\* resize.Resize(width, height, img, resize.Lanczos3): with both targets
\* non-zero the result has exactly these dimensions
Resize(width, height, img) == [img EXCEPT !.w = width, !.h = height]

\* DefaultThumbnailConfig, with TitleText and DurationText filled in
ThumbnailCfg(overlay, title, duration) ==
    [AddOverlay |-> overlay, TitleText |-> title, DurationText |-> duration,
     Width |-> CfgWidth, Height |-> CfgHeight, Quality |-> CfgQuality]

\* the drawing context after a face of this size is loaded
Face(fontSize) == [adv |-> IF fontSize \div 2 > 0 THEN fontSize \div 2 ELSE 1]

\* addOverlay, were the error of loadFont returned to the caller
addOverlayFailing(img, cfg, customFont, envT, envD) ==
    LET fT == loadFont(envT, customFont, img.w \div 25)
        fD == loadFont(envD, customFont, img.w \div 35)
    IN  IF ~fT.ok \/ (cfg.DurationText # <<>> /\ ~fD.ok)
        THEN [img |-> img, err |-> "no suitable font found"]
        ELSE [img |-> [img EXCEPT !.grad = TRUE, !.title = cfg.TitleText,
                                  !.dur = cfg.DurationText],
              err |-> ""]

\* addOverlay: returns the image and the error ("" is nil)
addOverlay(img, cfg, customFont, envT, envD) ==
    LET scaled == IF img.w > cfg.Width \/ img.h > cfg.Height
                  THEN Resize(cfg.Width, cfg.Height, img)
                  ELSE img
        width == scaled.w
        titleFontSize == width \div 25
        durationFontSize == width \div 35
        fT == loadFont(envT, customFont, titleFontSize)
        fD == loadFont(envD, customFont, durationFontSize)
        maxWidth == (width * 9) \div 10
    IN  IF ~fT.ok
        THEN [img |-> scaled, err |-> ""]
        ELSE [img |-> [scaled EXCEPT
                         !.grad = TRUE,
                         !.title = IF cfg.TitleText # <<>>
                                   THEN wrapText(Face(titleFontSize), cfg.TitleText, maxWidth)
                                   ELSE <<>>,
                         !.dur = IF cfg.DurationText # <<>> /\ fD.ok
                                 THEN cfg.DurationText
                                 ELSE <<>>],
              err |-> ""]

----------------------------------------------------------------------------
(* downloadImage and saveImage *)

\* what http.Get, the status check, io.ReadAll and image.Decode may give
DownloadOutcomes ==
    { "ok", "failed to download image", "bad status",
      "failed to read image data", "failed to decode image" }

\* downloadImage, were a failed GET tried once more
downloadImageRetry(url, outcome, size) ==
    IF outcome = "ok"
    THEN [img |-> [w |-> size[1], h |-> size[2], src |-> url, grad |-> FALSE,
                   title |-> <<>>, dur |-> <<>>],
          err |-> "", gets |-> 1]
    ELSE [img |-> [w |-> 0, h |-> 0, src |-> <<>>, grad |-> FALSE,
                   title |-> <<>>, dur |-> <<>>],
          err |-> outcome, gets |-> 2]

\* downloadImage: one GET; any failure is returned, none is retried
downloadImage(url, outcome, size) ==
    IF outcome = "ok"
    THEN [img |-> Bitmap(url, size), err |-> "", gets |-> 1]
    ELSE [img |-> NoImg, err |-> outcome, gets |-> 1]

\* what os.MkdirAll, os.Create and jpeg.Encode may give
SaveOutcomes ==
    { "ok", "failed to create directory", "failed to create file", "encode failed" }

\* saveImage: the directory, the files and the error afterwards
saveImage(fs, dir, content, path, outcome) ==
    IF outcome = "failed to create directory"
    THEN [files |-> fs, dir |-> dir, err |-> outcome]
    ELSE IF outcome = "failed to create file"
    THEN [files |-> fs, dir |-> TRUE, err |-> outcome]
    ELSE IF outcome = "encode failed"
    THEN [files |-> WriteFile(fs, path, content), dir |-> TRUE, err |-> outcome]
    ELSE [files |-> WriteFile(fs, path, content), dir |-> TRUE, err |-> ""]

----------------------------------------------------------------------------
(* State *)

NoReq == Req(<<>>, <<>>, <<>>)

DefaultLoc ==
    [req |-> NoReq, cached |-> <<>>, img |-> NoImg, outputPath |-> <<>>,
     quality |-> 0, ret |-> <<>>, err |-> ""]

NoEntry == [value |-> <<>>, expiresAt |-> 0, setAt |-> 0, by |-> 0, req |-> NoReq]

\* history of the running call: its number, the counts of GETs, saves and
\* cache Sets, the state of the key's entry and the entry itself when Get
\* ran, whether the entry was then set more than 30 minutes ago, the result
\* of os.Stat and of the two loadFont calls
DefaultObs ==
    [id |-> 0, gets |-> 0, saves |-> 0, sets |-> 0, entry |-> "none",
     seen |-> NoEntry, aged |-> FALSE, stat |-> "none", fontT |-> "none",
     fontD |-> "none"]

Configs ==
    { [ThumbnailOverlay |-> TRUE, ThumbnailFont |-> ""],
      [ThumbnailOverlay |-> TRUE, ThumbnailFont |-> CustomFontPath],
      [ThumbnailOverlay |-> FALSE, ThumbnailFont |-> ""] }

WrapIdle == [text |-> <<>>, maxWidth |-> 0, adv |-> 1]

\* CleanupOldThumbnails not running: no listing, no snapshot of the clock;
\* runs counts the runs started, and the sets are the history of the last
\* run: the entries listed, those whose file.Info() failed, the files (with
\* the ModTime read) handed to os.Remove, those removed, those whose
\* removal failed, and those removed after an earlier failure of the run
JanIdle ==
    [pc |-> "idle", todo |-> <<>>, now |-> 0, runs |-> 0, listed |-> {},
     skipped |-> {}, attempted |-> {}, removed |-> {}, failed |-> {},
     resumed |-> {}]

\* the state when the program starts, under one of the given configurations
Start(configs) ==
    /\ now = 0
    /\ cache = << >>
    /\ files = << >>
    /\ dirExists = FALSE
    /\ config \in configs
    /\ pc = [p \in Procs |-> "idle"]
    /\ loc = [p \in Procs |-> DefaultLoc]
    /\ obs = [p \in Procs |-> DefaultObs]
    /\ ncalls = 0
    /\ wpc = "off"
    /\ win = WrapIdle
    /\ wout = <<>>
    /\ jan = JanIdle

Init == Start({[ThumbnailOverlay |-> TRUE, ThumbnailFont |-> ""]})

----------------------------------------------------------------------------
(* ProcessThumbnail, one action per step that touches shared state *)

\* a goroutine calls ProcessThumbnail (again, once its last call returned),
\* and the check  if thumbnailURL == "" { return "", nil }
Call(p, r) ==
    /\ pc[p] \in {"idle", "done"}
    /\ ncalls < MaxCalls
    /\ ncalls' = ncalls + 1
    /\ loc' = [loc EXCEPT ![p] = [DefaultLoc EXCEPT !.req = r]]
    /\ obs' = [obs EXCEPT ![p] = [DefaultObs EXCEPT !.id = ncalls + 1]]
    /\ pc' = [pc EXCEPT ![p] = IF r.url = <<>> THEN "done" ELSE "get"]
    /\ UNCHANGED <<now, cache, files, dirExists, config, wrapVars, jan>>

\* the state of key's entry as the cache holds it at time t
EntryState(c, key, t) ==
    IF key \notin DOMAIN c THEN "absent"
    ELSE IF t > c[key].expiresAt THEN "expired"
    ELSE "live"

\* pc after  if cached, ok := thumbnailCache.Get(cacheKey); ok
AfterGet(ok) == IF ok THEN "stat" ELSE "download"

\* thumbnailCache.Get(cacheKey)
Get(p) ==
    /\ pc[p] = "get"
    /\ LET key == cacheKey(loc[p].req)
           g == CacheGet(cache, key, now)
       IN  /\ loc' = [loc EXCEPT ![p].cached = g.value]
           /\ obs' = [obs EXCEPT
                        ![p].entry = EntryState(cache, key, now),
                        ![p].seen = IF key \in DOMAIN cache THEN cache[key] ELSE NoEntry,
                        ![p].aged = key \in DOMAIN cache /\ now - cache[key].setAt > 30]
           /\ pc' = [pc EXCEPT ![p] = AfterGet(g.ok)]
    /\ UNCHANGED <<now, cache, files, dirExists, config, ncalls, wrapVars, jan>>

\* AfterStat, were the result of os.Stat ignored and the cached path returned
AfterStatTrusting(exists) == "done"

\* AfterStat, were the cached path never returned
AfterStatRegenerate(exists) == "download"

\* pc after  if _, err := os.Stat(cached); err == nil { return cached, nil }
AfterStat(exists) == IF exists THEN "done" ELSE "download"

\* os.Stat(cached), and the return of the cached path
Stat(p) ==
    /\ pc[p] = "stat"
    /\ LET exists == fileExists(loc[p].cached)
       IN  /\ pc' = [pc EXCEPT ![p] = AfterStat(exists)]
           /\ loc' = [loc EXCEPT ![p].ret = IF AfterStat(exists) = "done"
                                             THEN loc[p].cached ELSE <<>>]
           /\ obs' = [obs EXCEPT ![p].stat = IF loc[p].cached \in DOMAIN files
                                              THEN "ok" ELSE "missing"]
    /\ UNCHANGED <<now, cache, files, dirExists, config, ncalls, wrapVars, jan>>

\* img, err := downloadImage(thumbnailURL); sizes are the bitmaps on offer
Download(p, outcomes, sizes) ==
    /\ pc[p] = "download"
    /\ \E outcome \in outcomes, size \in sizes :
         LET d == downloadImage(loc[p].req.url, outcome, size)
         IN  /\ obs' = [obs EXCEPT ![p].gets = @ + d.gets]
             /\ loc' = [loc EXCEPT ![p].img = d.img, ![p].err = d.err]
             /\ pc' = [pc EXCEPT ![p] = IF d.err # "" THEN "done" ELSE "render"]
    /\ UNCHANGED <<now, cache, files, dirExists, config, ncalls, wrapVars, jan>>

\* Rendered, were config.ThumbnailOverlay not consulted
RenderedAlwaysOverlay(img, req, cfg, envT, envD) ==
    [img |-> addOverlay(img, ThumbnailCfg(TRUE, req.title, req.duration),
                        cfg.ThumbnailFont, envT, envD).img,
     quality |-> CfgQuality,
     err |-> ""]

\* the image, quality and error ProcessThumbnail hands to saveImage
Rendered(img, req, cfg, envT, envD) ==
    IF ~cfg.ThumbnailOverlay
    THEN [img |-> img, quality |-> RawQuality, err |-> ""]
    ELSE LET c == ThumbnailCfg(cfg.ThumbnailOverlay, req.title, req.duration)
             r == addOverlay(img, c, cfg.ThumbnailFont, envT, envD)
         IN  [img |-> r.img, quality |-> c.Quality, err |-> r.err]

FontResult(overlay, f) == IF ~overlay THEN "none" ELSE IF f.ok THEN "ok" ELSE "fail"

\* the overlay branch, addOverlay and generateOutputPath; envs are the font
\* environments the two loadFont calls may meet
Render(p, envs) ==
    /\ pc[p] = "render"
    /\ \E envT \in envs, envD \in envs :
         LET r == Rendered(loc[p].img, loc[p].req, config, envT, envD)
             fT == loadFont(envT, config.ThumbnailFont, 0)
             fD == loadFont(envD, config.ThumbnailFont, 0)
         IN  /\ loc' = [loc EXCEPT
                          ![p].img = r.img,
                          ![p].quality = r.quality,
                          ![p].err = r.err,
                          ![p].outputPath = IF r.err = "" THEN generateOutputPath(now) ELSE <<>>]
             /\ obs' = [obs EXCEPT
                          ![p].fontT = FontResult(config.ThumbnailOverlay, fT),
                          ![p].fontD = IF fT.ok /\ loc[p].req.duration # <<>>
                                       THEN FontResult(config.ThumbnailOverlay, fD)
                                       ELSE "none"]
             /\ pc' = [pc EXCEPT ![p] = IF r.err # "" THEN "done" ELSE "save"]
    /\ UNCHANGED <<now, cache, files, dirExists, config, ncalls, wrapVars, jan>>

\* saveImage(processedImg, outputPath, quality)
Save(p) ==
    /\ pc[p] = "save"
    /\ \E outcome \in SaveOutcomes :
         /\ outcome = "failed to create directory" => ~dirExists
         /\ LET content == [mtime |-> now]
                s == saveImage(files, dirExists, content, loc[p].outputPath, outcome)
            IN  /\ files' = s.files
                /\ dirExists' = s.dir
                /\ loc' = [loc EXCEPT ![p].err = s.err, ![p].img = NoImg]
                /\ obs' = [obs EXCEPT ![p].saves = @ + 1]
                /\ pc' = [pc EXCEPT ![p] = IF s.err # "" THEN "done" ELSE "set"]
    /\ UNCHANGED <<now, cache, config, ncalls, wrapVars, jan>>

\* thumbnailCache.Set(cacheKey, outputPath); return outputPath, nil
Set(p) ==
    /\ pc[p] = "set"
    /\ cache' = CacheSet(cache, cacheKey(loc[p].req), loc[p].outputPath, now,
                          obs[p].id, loc[p].req)
    /\ loc' = [loc EXCEPT ![p].ret = loc[p].outputPath]
    /\ obs' = [obs EXCEPT ![p].sets = @ + 1]
    /\ pc' = [pc EXCEPT ![p] = "done"]
    /\ UNCHANGED <<now, files, dirExists, config, ncalls, wrapVars, jan>>

----------------------------------------------------------------------------
(* The environment: the clock and deletions from outside the program *)

Tick ==
    /\ now + TickStep <= MaxTime
    /\ now' = now + TickStep
    /\ UNCHANGED <<cache, files, dirExists, config, pc, loc, obs, ncalls,
                   wrapVars, jan>>

DeleteOutOfBand ==
    /\ \E path \in DOMAIN files : files' = RemoveFile(files, path)
    /\ UNCHANGED <<now, cache, dirExists, config, pc, loc, obs, ncalls,
                   wrapVars, jan>>

----------------------------------------------------------------------------
(* CleanupOldThumbnails *)

\* TooOld, were a file of exactly one hour removed as well
TooOldInclusive(t, mtime) == t - mtime >= Retention

\* if now.Sub(info.ModTime()) > time.Hour
TooOld(t, mtime) == t - mtime > Retention

\* the files one sweep removes: those listed and too old whose file.Info()
\* and os.Remove both succeed; a failure skips that file only
Swept(fs, t, failed) ==
    { path \in DOMAIN fs : TooOld(t, fs[path].mtime) /\ path \notin failed }

\* one sweep: os.Stat(dir), os.ReadDir(dir), now := time.Now(), the loop
CleanupOldThumbnails ==
    /\ \E readOk \in BOOLEAN :
         LET listing == IF dirExists /\ readOk THEN files ELSE << >>
         IN  \E failed \in SUBSET Swept(listing, now, {}) :
               files' = [path \in DOMAIN files \ Swept(listing, now, failed) |-> files[path]]
    /\ UNCHANGED <<now, cache, dirExists, config, pc, loc, obs, ncalls, wrapVars, jan>>

----------------------------------------------------------------------------
(* The specification of the pipeline *)

\* the bitmaps, font environments, download outcomes and requests met by
\* the concurrent pipeline
PipelineSizes == { <<1920, 1080>> }

PipelineOutcomes == { "ok", "bad status" }

PipelineRequests == { r \in Requests : r.title # <<>> }

PipelineFontEnvs ==
    { FontEnv("absent", <<"good", "absent", "absent", "absent", "absent", "absent">>) }

Next ==
    \/ \E p \in Procs, r \in PipelineRequests : Call(p, r)
    \/ \E p \in Procs : Get(p)
    \/ \E p \in Procs : Stat(p)
    \/ \E p \in Procs : Download(p, PipelineOutcomes, PipelineSizes)
    \/ \E p \in Procs : Render(p, PipelineFontEnvs)
    \/ \E p \in Procs : Save(p)
    \/ \E p \in Procs : Set(p)
    \/ Tick
    \/ DeleteOutOfBand
    \/ CleanupOldThumbnails

Spec == Init /\ [][Next]_vars

----------------------------------------------------------------------------
(* The specification of one caller's pipeline, with every bitmap, font      *)
(* environment and configuration                                            *)

InitRender == Start(Configs)

NextRender ==
    \/ \E r \in Requests : Call("c1", r)
    \/ Get("c1")
    \/ Stat("c1")
    \/ Download("c1", DownloadOutcomes, SourceSizes)
    \/ Render("c1", FontEnvs)
    \/ Save("c1")
    \/ Set("c1")
    \/ DeleteOutOfBand

SpecRender == InitRender /\ [][NextRender]_vars

----------------------------------------------------------------------------
(* The specification of wrapText on its own *)

WrapAlphabet == {"a", " "}

RECURSIVE TextsOfLen(_)
TextsOfLen(n) ==
    IF n = 0 THEN { <<>> }
    ELSE { Append(t, c) : t \in TextsOfLen(n - 1), c \in WrapAlphabet }

Texts == UNION { TextsOfLen(n) : n \in 0 .. MaxTextLen }

InitWrap ==
    /\ now = 0
    /\ cache = << >>
    /\ files = << >>
    /\ dirExists = FALSE
    /\ config = [ThumbnailOverlay |-> TRUE, ThumbnailFont |-> ""]
    /\ pc = [p \in Procs |-> "idle"]
    /\ loc = [p \in Procs |-> DefaultLoc]
    /\ obs = [p \in Procs |-> DefaultObs]
    /\ ncalls = 0
    /\ wpc = "ready"
    /\ win \in [text : Texts, maxWidth : 0 .. MaxWidth, adv : 1 .. MaxAdv]
    /\ wout = <<>>
    /\ jan = JanIdle

\* wrappedTitle := wrapText(dc, cfg.TitleText, maxWidth)
WrapCall ==
    /\ wpc = "ready"
    /\ wout' = wrapText([adv |-> win.adv], win.text, win.maxWidth)
    /\ wpc' = "done"
    /\ UNCHANGED <<now, cache, files, dirExists, config, pc, loc, obs, ncalls, win,
                   jan>>

NextWrap == WrapCall

SpecWrap == InitWrap /\ [][NextWrap]_vars

----------------------------------------------------------------------------
(* FormatDurationForThumbnail *)

\* most seconds below zero, and most seconds above it, handed to
\* FormatDurationForThumbnail
MaxNegative == 5

MaxSeconds == 7300

DigitChars == <<"0", "1", "2", "3", "4", "5", "6", "7", "8", "9">>

RECURSIVE Itoa(_)
\* the decimal digits of n >= 0, as %d prints them
Itoa(n) ==
    IF n < 10 THEN <<DigitChars[n + 1]>>
    ELSE Append(Itoa(n \div 10), DigitChars[(n % 10) + 1])

\* %02d, were the width and the zero flag dropped
Pad2Unpadded(n) == Itoa(n)

\* %02d of n >= 0: at least two digits, filled with "0" on the left
Pad2(n) == IF Len(Itoa(n)) < 2 THEN <<"0">> \o Itoa(n) ELSE Itoa(n)

\* FormatDurationForThumbnail(seconds)
FormatDurationForThumbnail(seconds) ==
    IF seconds <= 0
    THEN <<"0", "0", ":", "0", "0">>
    ELSE LET hours == seconds \div 3600
             minutes == (seconds % 3600) \div 60
             secs == seconds % 60
         IN  IF hours > 0
             THEN Pad2(hours) \o <<":">> \o Pad2(minutes) \o <<":">> \o Pad2(secs)
             ELSE Pad2(minutes) \o <<":">> \o Pad2(secs)

\* the arguments tried: every int from -MaxNegative to MaxSeconds, and three
\* around a hundred hours, where the hours take a third digit
FormatInputs ==
    ((0 - MaxNegative) .. MaxSeconds)
        \cup { 100 * 3600 - 1, 100 * 3600, 100 * 3600 + 3661 }

InitFormat ==
    /\ now = 0
    /\ cache = << >>
    /\ files = << >>
    /\ dirExists = FALSE
    /\ config = [ThumbnailOverlay |-> TRUE, ThumbnailFont |-> ""]
    /\ pc = [p \in Procs |-> "idle"]
    /\ loc = [p \in Procs |-> DefaultLoc]
    /\ obs = [p \in Procs |-> DefaultObs]
    /\ ncalls = 0
    /\ wpc = "ready"
    /\ win \in [seconds : FormatInputs]
    /\ wout = <<>>
    /\ jan = JanIdle

FormatCall ==
    /\ wpc = "ready"
    /\ wout' = FormatDurationForThumbnail(win.seconds)
    /\ wpc' = "done"
    /\ UNCHANGED <<now, cache, files, dirExists, config, pc, loc, obs, ncalls, win,
                   jan>>

NextFormat == FormatCall

SpecFormat == InitFormat /\ [][NextFormat]_vars

----------------------------------------------------------------------------
(* CleanupOldThumbnails step by step, beside one caller of ProcessThumbnail *)

\* runs of CleanupOldThumbnails in one behaviour
MaxRuns == 2

\* an entry of the artifact directory that is itself a directory
IsDir(path) == path[1] = "dir"

\* os.ReadDir returns the entries sorted by filename: a directory "dir_<n>"
\* before the files "thumb_<timestamp>.jpg", and these by timestamp
PathLE(x, y) ==
    \/ IsDir(x) /\ ~IsDir(y)
    \/ IsDir(x) = IsDir(y) /\ x[2] <= y[2]

RECURSIVE SortPaths(_)
SortPaths(S) ==
    IF S = {} THEN <<>>
    ELSE LET first == CHOOSE x \in S : \A y \in S : PathLE(x, y)
         IN  <<first>> \o SortPaths(S \ {first})

\* what an earlier run of the program may have left in the directory: files
\* written 63, 62 and 61 minutes ago, one written exactly an hour ago, and a
\* sub-directory
LeftoverFull ==
    [path \in { <<"thumb", 0 - 63>>, <<"thumb", 0 - 62>>, <<"thumb", 0 - 61>>,
                <<"thumb", 0 - 60>>, <<"dir", 0 - 61>> } |-> [mtime |-> path[2]]]

\* any of these entries may be there
Leftovers ==
    { [path \in S |-> LeftoverFull[path]] : S \in SUBSET DOMAIN LeftoverFull }

\* if _, err := os.Stat(dir); os.IsNotExist(err) { return };
\* files, err := os.ReadDir(dir); if err != nil { return }; now := time.Now()
JanStart ==
    /\ jan.pc \in {"idle", "done"}
    /\ jan.runs < MaxRuns
    /\ \E readOk \in BOOLEAN :
         jan' = IF dirExists /\ readOk
                THEN [JanIdle EXCEPT !.pc = "loop",
                                     !.todo = SortPaths(DOMAIN files),
                                     !.listed = DOMAIN files,
                                     !.now = now,
                                     !.runs = jan.runs + 1]
                ELSE [JanIdle EXCEPT !.pc = "done", !.todo = <<>>,
                                     !.runs = jan.runs + 1]
    /\ UNCHANGED <<now, cache, files, dirExists, config, pc, loc, obs, ncalls,
                   wrapVars>>

\* what one turn of the loop does with the entry path: the files and the
\* history of the run afterwards
JanVisit(fs, j, path, infoOk, removeOk) ==
    IF IsDir(path)
    THEN [files |-> fs, jan |-> j]
    ELSE IF ~infoOk \/ path \notin DOMAIN fs
    THEN [files |-> fs, jan |-> [j EXCEPT !.skipped = @ \cup {path}]]
    ELSE IF ~TooOld(j.now, fs[path].mtime)
    THEN [files |-> fs, jan |-> j]
    ELSE IF ~removeOk
    THEN [files |-> fs,
          jan |-> [j EXCEPT
                     !.attempted = @ \cup {[path |-> path, mtime |-> fs[path].mtime]},
                     !.failed = @ \cup {path}]]
    ELSE [files |-> RemoveFile(fs, path),
          jan |-> [j EXCEPT
                     !.attempted = @ \cup {[path |-> path, mtime |-> fs[path].mtime]},
                     !.removed = @ \cup {path},
                     !.resumed = IF j.failed # {} \/ j.skipped # {}
                                 THEN @ \cup {path} ELSE @]]

\* for _, file := range files { ... }: one entry
JanStep ==
    /\ jan.pc = "loop"
    /\ jan.todo # <<>>
    /\ \E infoOk \in BOOLEAN, removeOk \in BOOLEAN :
         LET v == JanVisit(files, jan, Head(jan.todo), infoOk, removeOk)
         IN  /\ files' = v.files
             /\ jan' = [v.jan EXCEPT !.todo = Tail(jan.todo)]
    /\ UNCHANGED <<now, cache, dirExists, config, pc, loc, obs, ncalls, wrapVars>>

\* the loop is over and CleanupOldThumbnails returns
JanEnd ==
    /\ jan.pc = "loop"
    /\ jan.todo = <<>>
    /\ jan' = [jan EXCEPT !.pc = "done"]
    /\ UNCHANGED <<now, cache, files, dirExists, config, pc, loc, obs, ncalls,
                   wrapVars>>

JanitorRequests == { Req(<<"u">>, <<"a">>, <<"c">>) }

\* a fresh directory, one caller of ProcessThumbnail, the clock and the
\* sweeps
InitJanitor == Start({[ThumbnailOverlay |-> TRUE, ThumbnailFont |-> ""]})

NextJanitor ==
    \/ \E r \in JanitorRequests : Call("c1", r)
    \/ Get("c1")
    \/ Stat("c1")
    \/ Download("c1", {"ok"}, PipelineSizes)
    \/ Render("c1", PipelineFontEnvs)
    \/ Save("c1")
    \/ Set("c1")
    \/ Tick
    \/ JanStart
    \/ JanStep
    \/ JanEnd

SpecJanitor == InitJanitor /\ [][NextJanitor]_vars

\* the sweeps on their own, over a directory that an earlier run of the
\* program left behind
InitSweep ==
    /\ now = 0
    /\ cache = << >>
    /\ files \in Leftovers
    /\ dirExists \in {files # << >>, TRUE}
    /\ config = [ThumbnailOverlay |-> TRUE, ThumbnailFont |-> ""]
    /\ pc = [p \in Procs |-> "idle"]
    /\ loc = [p \in Procs |-> DefaultLoc]
    /\ obs = [p \in Procs |-> DefaultObs]
    /\ ncalls = 0
    /\ wpc = "off"
    /\ win = WrapIdle
    /\ wout = <<>>
    /\ jan = JanIdle

NextSweep ==
    \/ Tick
    \/ JanStart
    \/ JanStep
    \/ JanEnd

SpecSweep == InitSweep /\ [][NextSweep]_vars

----------------------------------------------------------------------------
(* The scaling step of addOverlay on its own *)

\* the widths and heights of the source bitmaps tried: inside the box, on
\* its edge, one pixel beyond it and well beyond it, in 16:9 and other ratios
ScaleWidths == { 320, 640, 1000, 1280, 1281, 1920, 2000, 2560 }

ScaleHeights == { 180, 360, 720, 721, 800, 1080, 1440, 2000 }

\* hosts with a usable default font and with no font at all
ScaleFontEnvs ==
    { FontEnv("absent", <<"good", "absent", "absent", "absent", "absent", "absent">>),
      FontEnv("absent", <<"absent", "absent", "absent", "absent", "absent", "absent">>) }

InitScale ==
    /\ now = 0
    /\ cache = << >>
    /\ files = << >>
    /\ dirExists = FALSE
    /\ config = [ThumbnailOverlay |-> TRUE, ThumbnailFont |-> ""]
    /\ pc = [p \in Procs |-> "idle"]
    /\ loc = [p \in Procs |-> DefaultLoc]
    /\ obs = [p \in Procs |-> DefaultObs]
    /\ ncalls = 0
    /\ wpc = "ready"
    /\ win \in [w : ScaleWidths, h : ScaleHeights, env : ScaleFontEnvs]
    /\ wout = <<>>
    /\ jan = JanIdle

\* processedImg, err := addOverlay(img, cfg): the bounds of processedImg
ScaleCall ==
    /\ wpc = "ready"
    /\ LET img == Bitmap(<<"u">>, <<win.w, win.h>>)
           cfg == ThumbnailCfg(TRUE, <<"a">>, <<"c">>)
           r == addOverlay(img, cfg, config.ThumbnailFont, win.env, win.env)
       IN  wout' = [w |-> r.img.w, h |-> r.img.h, err |-> r.err]
    /\ wpc' = "done"
    /\ UNCHANGED <<now, cache, files, dirExists, config, pc, loc, obs, ncalls, win,
                   jan>>

NextScale == ScaleCall

SpecScale == InitScale /\ [][NextScale]_vars

----------------------------------------------------------------------------
(* Vocabulary of the properties *)

Done(p) == pc[p] = "done"

InFlight(p) == pc[p] \notin {"idle", "done"}

Key(p) == cacheKey(loc[p].req)

\* the call returned a path it took from the cache
FromCache(p) == Done(p) /\ loc[p].ret # <<>> /\ obs[p].sets = 0

\* the call returned a path it generated, saved and cached
Generated(p) ==
    /\ Done(p)
    /\ loc[p].err = ""
    /\ loc[p].ret = loc[p].outputPath
    /\ loc[p].ret # <<>>
    /\ obs[p].gets = 1
    /\ obs[p].saves = 1
    /\ obs[p].sets = 1

\* the call returned an error and the empty path
Failed(p) == Done(p) /\ loc[p].err # "" /\ loc[p].ret = <<>>

\* a live entry whose artifact is not on disk
Dangling(key) ==
    /\ EntryState(cache, key, now) = "live"
    /\ cache[key].value \notin DOMAIN files

RECURSIVE SplitLines(_, _, _)
\* the lines of s, which "\n" separates
SplitLines(s, cur, acc) ==
    IF s = <<>> THEN Append(acc, cur)
    ELSE IF Head(s) = "\n" THEN SplitLines(Tail(s), <<>>, Append(acc, cur))
    ELSE SplitLines(Tail(s), Append(cur, Head(s)), acc)

OutLines == SplitLines(wout, <<>>, <<>>)

WrapDc == [adv |-> win.adv]

\* the number of lines the greedy loop of wrapText fills for the input
GreedyCount ==
    LET r == WrapLoop(WrapDc, Fields(win.text), 1, <<>>, <<>>, win.maxWidth)
    IN  Len(r[1]) + (IF r[2] # <<>> THEN 1 ELSE 0)

EndsWith(s, suffix) ==
    /\ Len(s) >= Len(suffix)
    /\ SubSeq(s, Len(s) - Len(suffix) + 1, Len(s)) = suffix

\* the title with each run of spaces made one space and none at the ends
Normalised(text) == Join(Fields(text), Space)

----------------------------------------------------------------------------
(* Properties *)

\* C1: a call that finds a live entry for its key whose artifact is on disk
\* returns that entry's path with no fetch, no save and no cache Set; with
\* the earlier call of the same triple that set the entry, that makes one
\* fetch and one save in total, and both calls return the same path.
C1_Idempotent ==
    \A q \in Procs :
        (Done(q) /\ obs[q].entry = "live" /\ obs[q].stat # "missing") =>
            /\ loc[q].ret = obs[q].seen.value
            /\ loc[q].ret # <<>>
            /\ loc[q].err = ""
            /\ obs[q].gets = 0
            /\ obs[q].saves = 0
            /\ obs[q].sets = 0
            /\ \A p \in Procs \ {q} :
                 (Done(p) /\ obs[p].id = obs[q].seen.by /\ loc[p].req = loc[q].req) =>
                     /\ loc[p].ret = loc[q].ret
                     /\ obs[p].gets + obs[q].gets = 1
                     /\ obs[p].saves + obs[q].saves = 1

C1_Witness ==
    \E p \in Procs, q \in Procs :
        /\ p # q
        /\ Generated(p)
        /\ FromCache(q)
        /\ obs[q].entry = "live"
        /\ obs[q].seen.by = obs[p].id
        /\ loc[p].req = loc[q].req
        /\ now > obs[q].seen.setAt

\* C2: callers running in parallel with the same triple, none of which found
\* an entry for the key, perform at most one fetch between them.
C2_SingleFetch ==
    \A p \in Procs, q \in Procs :
        ( /\ p # q
          /\ InFlight(p)
          /\ InFlight(q)
          /\ loc[p].req = loc[q].req
          /\ obs[p].entry = "absent"
          /\ obs[q].entry = "absent" ) =>
            obs[p].gets + obs[q].gets <= 1

\* C3: a call that finds a live entry whose artifact is missing goes on to
\* fetch; it returns either an error or the path it generated and saved
\* itself, never the cached path unverified, and on success the entry it
\* set holds the path it returned.
C3_SelfHealing ==
    \A p \in Procs :
        (obs[p].entry = "live" /\ obs[p].stat = "missing") =>
            /\ pc[p] \in {"download", "render", "save", "set", "done"}
            /\ Done(p) => /\ obs[p].gets = 1
                          /\ Failed(p) \/ Generated(p)
                          /\ Generated(p) =>
                               /\ Key(p) \in DOMAIN cache
                               /\ cache[Key(p)].by = obs[p].id =>
                                    /\ cache[Key(p)].value = loc[p].ret
                                    /\ cache[Key(p)].by # obs[p].seen.by

C3_Witness ==
    \E p \in Procs :
        /\ obs[p].entry = "live"
        /\ obs[p].stat = "missing"
        /\ Generated(p)
        /\ cache[Key(p)].by = obs[p].id
        /\ obs[p].seen.value \notin DOMAIN files

\* C4: a call whose Get runs more than 30 minutes after the Set of its key's
\* entry does not take the path from the cache: it does not even stat it, it
\* fetches, and on success returns a newly generated path different from the
\* expired entry's.
C4_TtlExpiry ==
    \A p \in Procs :
        (Done(p) /\ obs[p].aged) =>
            /\ obs[p].stat = "none"
            /\ obs[p].gets = 1
            /\ Failed(p) \/ Generated(p)
            /\ loc[p].ret # obs[p].seen.value

C4_Witness ==
    \E p \in Procs :
        /\ obs[p].aged
        /\ Generated(p)
        /\ obs[p].seen.value \in DOMAIN files

\* C5 (as claimed): no live cache entry references an artifact path whose
\* file does not exist.
C5_NoDanglingEntry == \A key \in DOMAIN cache : ~Dangling(key)

\* C5 (amended): a call returns a path from the cache only when os.Stat found
\* the file, and a call whose os.Stat found it missing fetches.
C5_VerifiedHit ==
    \A p \in Procs :
        /\ FromCache(p) => obs[p].stat = "ok" /\ loc[p].ret = obs[p].seen.value
        /\ (Done(p) /\ obs[p].stat = "missing") => obs[p].gets = 1 /\ ~FromCache(p)

C5_Witness ==
    \E p \in Procs :
        /\ FromCache(p)
        /\ obs[p].stat = "ok"
        /\ \E key \in DOMAIN cache : Dangling(key)

\* C6: a call that returns an error returns the empty path, has issued
\* exactly one GET and has made no cache Set; the cache changes only in the
\* Set of a call that returns without error.
C6_FailureLeavesCache ==
    /\ [](\A p \in Procs :
            (Done(p) /\ loc[p].err # "") =>
                /\ loc[p].ret = <<>>
                /\ obs[p].gets = 1
                /\ obs[p].sets = 0)
    /\ [][cache' # cache =>
            \E p \in Procs :
                /\ pc[p] = "set"
                /\ pc'[p] = "done"
                /\ loc'[p].err = ""]_vars

C6_Witness ==
    \E p \in Procs :
        /\ Failed(p)
        /\ loc[p].err = "failed to decode image"
        /\ Key(p) \in DOMAIN cache

\* C7: with overlay enabled, a call whose loadFont failed for the title or
\* for the duration gets a nil error and an image from addOverlay (without
\* the text whose font failed), calls saveImage, and unless saveImage fails
\* caches the path and returns it with a nil error.
C7_FontFailureAbsorbed ==
    \A p \in Procs :
        (config.ThumbnailOverlay /\ (obs[p].fontT = "fail" \/ obs[p].fontD = "fail")) =>
            /\ pc[p] \in {"save", "set", "done"}
            /\ pc[p] = "save" =>
                 /\ loc[p].err = ""
                 /\ loc[p].img.w > 0
                 /\ loc[p].img.dur = <<>>
                 /\ obs[p].fontT = "fail" => loc[p].img.title = <<>>
            /\ Done(p) =>
                 /\ obs[p].saves = 1
                 /\ Failed(p) \/ Generated(p)
                 /\ Generated(p) => /\ Key(p) \in DOMAIN cache
                                    /\ cache[Key(p)].value = loc[p].ret

C7_Witness ==
    \E p \in Procs :
        /\ config.ThumbnailOverlay
        /\ obs[p].fontT = "fail"
        /\ Generated(p)
        /\ cache[Key(p)].value = loc[p].ret

\* C8: a path returned from the cache was cached for the very triple of the
\* call that returns it (no two triples share a key).
C8_HitSameTriple ==
    \A p \in Procs : FromCache(p) => obs[p].seen.req = loc[p].req

\* C9: when the greedy wrap fills more than 2 lines, the second line
\* returned ends with "..." and measures at most maxWidth.
C9_Ellipsis ==
    (wpc = "done" /\ GreedyCount > 2) =>
        /\ Len(OutLines) >= 2
        /\ EndsWith(OutLines[2], Ellipsis)
        /\ MeasureString(WrapDc, OutLines[2]) <= win.maxWidth

\* C10 (as claimed): a title measuring at most maxWidth gives one line, any
\* wider title exactly 2 lines, and no title more than 2.
C10_LineCount ==
    wpc = "done" =>
        /\ MeasureString(WrapDc, win.text) <= win.maxWidth => Len(OutLines) = 1
        /\ MeasureString(WrapDc, win.text) > win.maxWidth => Len(OutLines) = 2
        /\ Len(OutLines) <= 2

\* C10 (amended): for a title of at least one word: it gives 1 or 2 lines; 1
\* line if it measures at most maxWidth; 2 lines exactly when it has two or
\* more words and, with its runs of spaces made single, measures more than
\* maxWidth.
C10_LineCountAmended ==
    (wpc = "done" /\ Len(Fields(win.text)) >= 1) =>
        /\ Len(OutLines) \in {1, 2}
        /\ MeasureString(WrapDc, win.text) <= win.maxWidth => Len(OutLines) = 1
        /\ Len(OutLines) = 2 <=>
             /\ Len(Fields(win.text)) >= 2
             /\ MeasureString(WrapDc, Normalised(win.text)) > win.maxWidth

C10_Witness ==
    /\ wpc = "done"
    /\ GreedyCount > 2
    /\ Len(OutLines) = 2
    /\ EndsWith(OutLines[2], Ellipsis)

RECURSIVE SplitOn(_, _, _, _)
\* the fields of s, which sep separates
SplitOn(s, sep, cur, acc) ==
    IF s = <<>> THEN Append(acc, cur)
    ELSE IF Head(s) = sep THEN SplitOn(Tail(s), sep, <<>>, Append(acc, cur))
    ELSE SplitOn(Tail(s), sep, Append(cur, Head(s)), acc)

IsDigits(s) ==
    /\ s # <<>>
    /\ \A i \in 1 .. Len(s) : \E d \in 1 .. 10 : DigitChars[d] = s[i]

RECURSIVE ToNat(_)
\* the number a string of decimal digits stands for
ToNat(s) ==
    IF s = <<>> THEN 0
    ELSE ToNat(SubSeq(s, 1, Len(s) - 1)) * 10
            + ((CHOOSE d \in 1 .. 10 : DigitChars[d] = s[Len(s)]) - 1)

OutFields == SplitOn(wout, ":", <<>>, <<>>)

\* a number printed with two digits, or with more and no leading zero
ZeroPadded(f) == IsDigits(f) /\ Len(f) >= 2 /\ (Len(f) > 2 => Head(f) # "0")

\* C11: FormatDurationForThumbnail(s) is "00:00" for s <= 0; for 0 < s < 3600
\* it is two two-digit fields holding s/60 and s%60; for s >= 3600 it is
\* three zero-padded fields holding s/3600, (s%3600)/60 and s%60, the last
\* two of two digits; the hours field is there exactly when s >= 3600; and
\* 0, 65, 3661 and -5 give 00:00, 01:05, 01:01:01 and 00:00.
C11_DurationFormat ==
    wpc = "done" =>
        LET s == win.seconds
            f == OutFields
        IN  /\ \A i \in 1 .. Len(f) : ZeroPadded(f[i])
            /\ s <= 0 => wout = <<"0", "0", ":", "0", "0">>
            /\ (0 < s /\ s < 3600) =>
                 /\ Len(f) = 2
                 /\ Len(f[1]) = 2 /\ ToNat(f[1]) = s \div 60
                 /\ Len(f[2]) = 2 /\ ToNat(f[2]) = s % 60
            /\ s >= 3600 =>
                 /\ Len(f) = 3
                 /\ ToNat(f[1]) = s \div 3600
                 /\ Len(f[2]) = 2 /\ ToNat(f[2]) = (s % 3600) \div 60
                 /\ Len(f[3]) = 2 /\ ToNat(f[3]) = s % 60
            /\ Len(f) = 3 <=> s >= 3600
            /\ s = 65 => wout = <<"0", "1", ":", "0", "5">>
            /\ s = 3661 => wout = <<"0", "1", ":", "0", "1", ":", "0", "1">>

C11_Witness ==
    /\ wpc = "done"
    /\ win.seconds = 3661
    /\ wout = <<"0", "1", ":", "0", "1", ":", "0", "1">>

\* the paths the run has handed to os.Remove
Attempted == { a.path : a \in jan.attempted }

\* C12: a run of CleanupOldThumbnails hands to os.Remove only files, never
\* directories, whose ModTime is more than an hour before the run's clock
\* reading, and a file disappears only so; when the run is over every file
\* it listed has been visited: one that is more than an hour old and is
\* still there had its removal or its Info fail, and one of an hour or less
\* is still there.
C12_JanitorSweep ==
    /\ [](/\ \A a \in jan.attempted :
               /\ ~IsDir(a.path)
               /\ a.path \in jan.listed
               /\ jan.now - a.mtime > Retention
          /\ jan.removed \cup jan.failed = Attempted
          /\ jan.removed \cap DOMAIN files = {}
          /\ jan.pc = "done" =>
               /\ jan.todo = <<>>
               /\ \A path \in jan.listed :
                    /\ (path \in DOMAIN files /\ ~IsDir(path)
                          /\ jan.now - files[path].mtime > Retention) =>
                         path \in jan.failed \cup jan.skipped
                    /\ path \notin DOMAIN files => path \in jan.removed)
    /\ [][\A path \in DOMAIN files \ DOMAIN files' :
             /\ ~IsDir(path)
             /\ jan.now - files[path].mtime > Retention
             /\ path \in jan'.removed]_vars

C12_Witness ==
    /\ jan.pc = "done"
    /\ jan.failed # {}
    /\ jan.skipped # {}
    /\ jan.resumed # {}
    /\ \E path \in jan.listed : IsDir(path)
    /\ \E path \in jan.listed \cap DOMAIN files :
         ~IsDir(path) /\ jan.now - files[path].mtime = Retention

\* the files that the step removes from the directory
RemovedInStep == DOMAIN files \ DOMAIN files'

\* the keys whose entry is unexpired and holds path
LiveKeysOf(path) ==
    { key \in DOMAIN cache :
        cache[key].value = path /\ EntryState(cache, key, now) = "live" }

\* C13 (as claimed): with only ProcessThumbnail and CleanupOldThumbnails at
\* work, no step removes the artifact of an unexpired cache entry.
C13_NoLiveArtifactDeleted ==
    [][\A path \in RemovedInStep : LiveKeysOf(path) = {}]_vars

\* C13 (amended): with only ProcessThumbnail and CleanupOldThumbnails at
\* work, a step removes the artifact of an unexpired cache entry only when
\* that entry was Set more than 30 minutes after the artifact was written.
C13_DeletedOnlyAfterLateSet ==
    [][\A path \in RemovedInStep :
         \A key \in LiveKeysOf(path) :
            cache[key].setAt - files[path].mtime > 30]_vars

C13_Witness ==
    \E key \in DOMAIN cache :
        /\ EntryState(cache, key, now) = "expired"
        /\ cache[key].value \notin DOMAIN files
        /\ \E a \in jan.attempted :
             /\ a.path = cache[key].value
             /\ a.path \in jan.removed
             /\ cache[key].setAt - a.mtime <= 30

\* C14: two calls of ProcessThumbnail that are running at the same time and
\* have each called generateOutputPath hold different paths.
C14_UniquePaths ==
    \A p \in Procs, q \in Procs :
        ( /\ p # q
          /\ InFlight(p)
          /\ InFlight(q)
          /\ loc[p].outputPath # <<>>
          /\ loc[q].outputPath # <<>> ) =>
            loc[p].outputPath # loc[q].outputPath

\* the difference of a and b, without its sign
AbsDiff(a, b) == IF a >= b THEN a - b ELSE b - a

\* w2 : h2 is the ratio w1 : h1, up to the rounding of one pixel
SameRatio(w1, h1, w2, h2) == AbsDiff(w2 * h1, h2 * w1) <= w1 + h1

\* C15: addOverlay leaves the dimensions of a source within 1280x720 as they
\* are; a source wider than 1280 or higher than 720 comes out within
\* 1280x720 and with the width:height ratio of the source.
C15_Scaling ==
    wpc = "done" =>
        /\ (win.w <= CfgWidth /\ win.h <= CfgHeight) =>
             wout.w = win.w /\ wout.h = win.h
        /\ (win.w > CfgWidth \/ win.h > CfgHeight) =>
             /\ wout.w <= CfgWidth
             /\ wout.h <= CfgHeight
             /\ SameRatio(win.w, win.h, wout.w, wout.h)

\* C16: with config.ThumbnailOverlay false, the step after a successful
\* download leaves the fetched bitmap as it is and goes on to saveImage with
\* quality 95 and a generated path, no font having been loaded; and a call
\* that returns without error after its download has saved once, set the
\* entry of its key to that path and returned it.
C16_OverlayDisabled ==
    /\ [](\A p \in Procs :
            ~config.ThumbnailOverlay =>
                /\ obs[p].fontT = "none"
                /\ obs[p].fontD = "none"
                /\ pc[p] \in {"save", "set"} =>
                     /\ loc[p].quality = 95
                     /\ loc[p].outputPath # <<>>
                /\ pc[p] = "save" =>
                     /\ ~loc[p].img.grad
                     /\ loc[p].img.title = <<>>
                     /\ loc[p].img.dur = <<>>
                     /\ <<loc[p].img.w, loc[p].img.h>> \in SourceSizes
                /\ (Done(p) /\ obs[p].gets = 1 /\ loc[p].err = "") =>
                     /\ Generated(p)
                     /\ Key(p) \in DOMAIN cache
                     /\ cache[Key(p)].value = loc[p].ret
                     /\ cache[Key(p)].by = obs[p].id)
    /\ [][\A p \in Procs :
            (~config.ThumbnailOverlay /\ pc[p] = "render" /\ pc'[p] # "render") =>
                /\ pc'[p] = "save"
                /\ loc'[p].img = loc[p].img
                /\ loc'[p].outputPath = generateOutputPath(now)]_vars

C16_Witness ==
    \E p \in Procs :
        /\ ~config.ThumbnailOverlay
        /\ Generated(p)
        /\ loc[p].quality = 95
        /\ cache[Key(p)].value = loc[p].ret

====
